---------------------------- MODULE Spec2Model ----------------------------
(***************************************************************************)
(* A model of the Starlings flocking simulation (js-funcs/starlings.js and *)
(* shaders/boidVelocityFrag.glsl).                                         *)
(*                                                                         *)
(* Numbers.  The program computes in floating point.  The model computes   *)
(* in fixed point: a length, a coordinate or a speed is an integer number  *)
(* of 1/Q world units, a time is an integer number of milliseconds, the    *)
(* predator uniform is an integer number of thousandths.  Every division   *)
(* rounds toward zero.  A float that is NaN is modelled by the flag nan of *)
(* the vector that holds it.                                               *)
(*                                                                         *)
(* The GPU.  this.gpuAllocation is three.js' GPUComputationRenderer.  Its  *)
(* compute() runs the variables in the order they were added, binds to     *)
(* every dependency the render target of index currentTextureIndex, draws  *)
(* into the render target of the other index, and flips the index when all *)
(* variables are done.  Within one pass the fragments (one per texel) run  *)
(* in an order the program does not control.                               *)
(***************************************************************************)
EXTENDS Integers, Sequences, FiniteSets, TLC

(***************************************************************************)
(* Bounds of the model.                                                    *)
(***************************************************************************)
\* number of fixed-point steps in one world unit
Q == 10
\* render() calls in one run
MaxTicks == 2
\* pointer, touch, resize and controls events, exceptions inside compute(), calls of
\* stop() and calls of start() after the first, in one run
MaxEvents == 2
\* milliseconds from line 112 to the first render()
StartupMs == 500

(***************************************************************************)
(* Constants of the program.                                               *)
(***************************************************************************)
SPEED_LIMIT == 10
PreyRadius == 50
PredatorGain == 160
PredatorLimitBonus == 5
CentralGain == 6
ResetPointer == 10000
ActiveFactor == 10
MsPerSecond == 1000
MaxDeltaMs == 1000
InitialPositionRange == 100
InitialVelocityRange == 10

(***************************************************************************)
(* Integer helpers.                                                        *)
(***************************************************************************)
Abs(a) == IF a < 0 THEN -a ELSE a

Max2(a, b) == IF a >= b THEN a ELSE b

\* division rounding toward zero, b > 0
TDiv(a, b) == IF a >= 0 THEN a \div b ELSE -((-a) \div b)

\* Newton's iteration from x >= sqrt(n), down to the floor of the square root
RECURSIVE SqrtSearch(_, _)
SqrtSearch(n, x) ==
    LET y == (x + n \div x) \div 2
    IN IF y >= x THEN x ELSE SqrtSearch(n, y)

\* floor of the square root, 0 <= n < 2^30
ISqrt(n) ==
    IF n = 0 THEN 0
    ELSE SqrtSearch(n, IF n < 1024 THEN 32 ELSE IF n < 1048576 THEN 1024 ELSE 32768)

\* the square root rounded up
CeilSqrt(n) == LET r == ISqrt(n) IN IF r * r = n THEN r ELSE r + 1

(***************************************************************************)
(* Vectors (GLSL vec3).  A vector with nan = TRUE has a NaN component: its *)
(* length is NaN, every comparison with it is false and every sum with it  *)
(* is NaN.                                                                 *)
(***************************************************************************)
Vec(a, b, c) == [x |-> a, y |-> b, z |-> c, nan |-> FALSE]

NaNVec == [x |-> 0, y |-> 0, z |-> 0, nan |-> TRUE]

ZeroVec == Vec(0, 0, 0)

VAdd(a, b) == IF a.nan \/ b.nan THEN NaNVec ELSE Vec(a.x + b.x, a.y + b.y, a.z + b.z)

VSub(a, b) == IF a.nan \/ b.nan THEN NaNVec ELSE Vec(a.x - b.x, a.y - b.y, a.z - b.z)

LenSq(a) == a.x * a.x + a.y * a.y + a.z * a.z

MaxAbs(a) == Max2(Abs(a.x), Max2(Abs(a.y), Abs(a.z)))

\* the vector scaled down so that products with it stay in 32 bits
Reduced(a) ==
    LET k == MaxAbs(a) \div 4096 + 1
    IN Vec(TDiv(a.x, k), TDiv(a.y, k), TDiv(a.z, k))

(***************************************************************************)
(* normalize(dir) * f.  GLSL leaves normalize() of the zero vector         *)
(* undefined: a GPU returns the zero vector or NaN (0 * inversesqrt(0)).   *)
(* nz names what the GPU does with it, one of NormalizeZero.               *)
(***************************************************************************)
NormalizeZero == { "zero", "nan" }

NormalizeTimes(dir, f, nz) ==
    IF dir.nan THEN NaNVec
    ELSE IF LenSq(Reduced(dir)) = 0
         THEN IF nz = "nan" THEN NaNVec ELSE ZeroVec
         ELSE LET d == Reduced(dir)
                  len == CeilSqrt(LenSq(d))
              IN Vec(TDiv(d.x * f, len), TDiv(d.y * f, len), TDiv(d.z * f, len))

\* length(v) > limit, false when v is NaN
LongerThan(v, limit) ==
    /\ ~v.nan
    /\ \/ MaxAbs(v) > limit
       \/ LenSq(v) > limit * limit

(***************************************************************************)
(* cos(t * PI_2) in thousandths, t in hundredths of a turn (Bhaskara's     *)
(* rational approximation of the sine of a half turn, exact at 0, 1/4,     *)
(* 1/2, 3/4 and 1 turn).                                                   *)
(***************************************************************************)
SinHalfTurn(u) == LET p == u * (100 - u) IN TDiv(16000 * p, 50000 - 4 * p)

CosTurn(t) ==
    LET r == t % 100
    IN IF r <= 25 THEN SinHalfTurn(2 * r + 50)
       ELSE IF r <= 75 THEN -SinHalfTurn(2 * r - 50)
       ELSE SinHalfTurn(2 * r - 150)

(***************************************************************************)
(* shaders/boidVelocityFrag.glsl, main(): the new velocity of the texel    *)
(* self.  P and V are the textures bound to PositionTexture and            *)
(* VelocityTexture (functions from texel to vector), u the uniforms and    *)
(* defines of the velocity material.                                       *)
(***************************************************************************)
zoneRadius(u) == (u.separation_distance + u.alignment_distance + u.cohesion_distance) * Q

\* the divisors of lines 26 and 27 (separationThresh and alignmentThresh), which every
\* fragment evaluates before its first test
ThresholdDivisors(u) == { zoneRadius(u) }

\* dir = predator * UPPER_bounds - selfPosition; dir.z = 0.
PredatorDir(selfPosition, u) ==
    LET w == Vec(TDiv(u.predator.x * u.bounds * Q, 1000),
                 TDiv(u.predator.y * u.bounds * Q, 1000),
                 TDiv(u.predator.z * u.bounds * Q, 1000))
        d == VSub(w, selfPosition)
    IN IF d.nan THEN NaNVec ELSE Vec(d.x, d.y, 0)

\* if (dist < preyRadius)
PredatorNear(selfPosition, u) ==
    LET d == PredatorDir(selfPosition, u)
    IN /\ ~d.nan
       /\ MaxAbs(d) < PreyRadius * Q
       /\ LenSq(d) < (PreyRadius * Q) * (PreyRadius * Q)

\* normalize(dir) * f with f = (distSquared / preyRadiusSq) * del_change * 160.
PredatorPush(selfPosition, u, nz) ==
    LET d == PredatorDir(selfPosition, u)
        f == TDiv(TDiv(LenSq(d) * PredatorGain, PreyRadius * PreyRadius) * u.del_change,
                  Q * MsPerSecond)
    IN NormalizeTimes(d, f, nz)

\* limit = SPEED_LIMIT; if (dist < preyRadius) limit += 5.0
SpeedLimit(selfPosition, u) ==
    IF PredatorNear(selfPosition, u)
    THEN (SPEED_LIMIT + PredatorLimitBonus) * Q
    ELSE SPEED_LIMIT * Q

\* dir = selfPosition - central; dir.y *= 2.5; normalize(dir) * del_change * 6.
CentralPull(selfPosition, u, nz) ==
    IF selfPosition.nan THEN NaNVec
    ELSE NormalizeTimes(Vec(selfPosition.x, TDiv(selfPosition.y * 25, 10), selfPosition.z),
                        TDiv(CentralGain * Q * u.del_change, MsPerSecond), nz)

\* a faulty variant of Zone: the zone boundaries belong to the inner zone
ZoneInclusive(d2, u) ==
    LET Z == zoneRadius(u)
    IN IF d2 = 0 THEN "coincident"
       ELSE IF d2 > Z * Z THEN "outside"
       ELSE IF d2 <= u.separation_distance * Q * Z THEN "separation"
       ELSE IF d2 <= (u.separation_distance + u.alignment_distance) * Q * Z THEN "alignment"
       ELSE "cohesion"

\* the zone of a neighbour at squared distance d2: percent = d2 / zoneRadiusSquared is
\* compared with separationThresh = separation / zoneRadius and alignmentThresh
\* (exactly: d2 / Z^2 < s / Z  iff  d2 < s * Z)
Zone(d2, u) ==
    LET Z == zoneRadius(u)
    IN IF d2 = 0 THEN "coincident"
       ELSE IF d2 > Z * Z THEN "outside"
       ELSE IF d2 < u.separation_distance * Q * Z THEN "separation"
       ELSE IF d2 < (u.separation_distance + u.alignment_distance) * Q * Z THEN "alignment"
       ELSE "cohesion"

\* a faulty variant of SeparationStrength: percent / separationThresh - 1.0
SeparationStrengthInverted(d2, u) ==
    TDiv((TDiv(d2 * Q, u.separation_distance * Q * zoneRadius(u)) - Q) * u.del_change,
         MsPerSecond)

\* f = (separationThresh / percent - 1.0) * del_change, line 88
SeparationStrength(d2, u) ==
    TDiv((TDiv(u.separation_distance * Q * zoneRadius(u) * Q, d2) - Q) * u.del_change,
         MsPerSecond)

\* velocity -= normalize(dir) * f, line 89
SeparationTerm(dir, u, nz) ==
    LET n == NormalizeTimes(dir, SeparationStrength(LenSq(dir), u), nz)
    IN IF n.nan THEN NaNVec ELSE Vec(-n.x, -n.y, -n.z)

\* adjustedPercent of line 92, in hundredths
AlignmentPercent(d2, u) ==
    TDiv((d2 - u.separation_distance * Q * zoneRadius(u)) * 100,
         u.alignment_distance * Q * zoneRadius(u))

\* 0.5 - cos(adjustedPercent * PI_2) * 0.5 + 0.5, line 94, in thousandths
AlignmentWeight(t) == 500 - TDiv(CosTurn(t), 2) + 500

\* velocity += normalize(birdVelocity) * f, lines 93-95
AlignmentTerm(dir, birdVelocity, u, nz) ==
    NormalizeTimes(birdVelocity,
                   TDiv(AlignmentWeight(AlignmentPercent(LenSq(dir), u)) * Q * u.del_change,
                        1000 * MsPerSecond),
                   nz)

\* adjustedPercent of line 98, in hundredths
CohesionPercent(d2, u) ==
    TDiv((d2 - (u.separation_distance + u.alignment_distance) * Q * zoneRadius(u)) * 100,
         u.cohesion_distance * Q * zoneRadius(u))

\* 0.5 - (cos(adjustedPercent * PI_2) * -0.5 + 0.5), line 99, in thousandths
CohesionWeight(t) == 500 - (TDiv(-CosTurn(t), 2) + 500)

\* velocity += normalize(dir) * f, lines 97-100; threshold = 1.0 - alignmentThresh is 0
\* when cohesion_distance is 0, and adjustedPercent is then 0/0
CohesionTerm(dir, u, nz) ==
    IF u.cohesion_distance = 0 THEN NaNVec
    ELSE NormalizeTimes(dir,
                        TDiv(CohesionWeight(CohesionPercent(LenSq(dir), u)) * Q * u.del_change,
                             1000 * MsPerSecond),
                        nz)

\* the term the loop body adds to velocity for the neighbour texel j
NeighbourTerm(selfPosition, j, P, V, u, nz) ==
    LET dir == VSub(P[j], selfPosition)
        zone == Zone(LenSq(dir), u)
    IN IF dir.nan THEN NaNVec
       ELSE IF zone \in {"coincident", "outside"} THEN ZeroVec
       ELSE IF zone = "separation" THEN SeparationTerm(dir, u, nz)
       ELSE IF zone = "alignment" THEN AlignmentTerm(dir, V[j], u, nz)
       ELSE CohesionTerm(dir, u, nz)

\* for (y ...) for (x ...): the sum of the terms of the texels 0 .. n-1
RECURSIVE NeighbourSum(_, _, _, _, _, _)
NeighbourSum(selfPosition, n, P, V, u, nz) ==
    IF n = 0 THEN ZeroVec
    ELSE VAdd(NeighbourSum(selfPosition, n - 1, P, V, u, nz),
              NeighbourTerm(selfPosition, n - 1, P, V, u, nz))

\* if (length(velocity) > limit) velocity = normalize(velocity) * limit
ClampSpeed(velocity, limit, nz) ==
    IF LongerThan(velocity, limit) THEN NormalizeTimes(velocity, limit, nz) ELSE velocity

\* velocity as the loop of line 74 finds it: after the predator and the centre pull
VelocityBeforeLoop(self, P, V, u, nz) ==
    LET selfPosition == P[self]
        selfVelocity == V[self]
        v1 == IF PredatorNear(selfPosition, u)
              THEN VAdd(selfVelocity, PredatorPush(selfPosition, u, nz))
              ELSE selfVelocity
    IN VSub(v1, CentralPull(selfPosition, u, nz))

boidVelocityFrag(self, P, V, u, nz) ==
    LET v3 == VAdd(VelocityBeforeLoop(self, P, V, u, nz),
                   NeighbourSum(P[self], Cardinality(DOMAIN P), P, V, u, nz))
    IN ClampSpeed(v3, SpeedLimit(P[self], u), nz)

\* what a fragment may draw, with what is then known of the GPU (g: "unknown", or
\* what this GPU gives for normalize(0), the same in every run of a kernel), given
\* r, the kernel's run with normalize(0) counted as NaN.  NaN enters a kernel run
\* only through its inputs or through normalize() of the zero vector, and once in it
\* stays: a run that counts normalize(0) as NaN and ends without NaN has met no
\* normalize(0), and every GPU draws its result.
KernelOutcomesOf(r, self, P, V, u, g) ==
    IF r.nan
    THEN { [value |-> boidVelocityFrag(self, P, V, u, nz), gpu |-> nz] :
               nz \in IF g = "unknown" THEN NormalizeZero ELSE {g} }
    ELSE { [value |-> r, gpu |-> g] }

KernelOutcomes(self, P, V, u, g) ==
    KernelOutcomesOf(boidVelocityFrag(self, P, V, u, "nan"), self, P, V, u, g)

(***************************************************************************)
(* shaders/boidPositionFrag.glsl is not among the sources.  The position   *)
(* kernel is modelled from the specification (4.3): the position advanced  *)
(* by the velocity it reads times dt, then each axis that left             *)
(* [-bounds, bounds] wrapped to the opposite face.                         *)
(***************************************************************************)
WrapAxis(p, b) == IF p > b THEN -b ELSE IF p < -b THEN b ELSE p

boidPositionFrag(self, P, V, dt, bounds) ==
    IF P[self].nan \/ V[self].nan THEN NaNVec
    ELSE Vec(WrapAxis(P[self].x + TDiv(V[self].x * dt, MsPerSecond), bounds * Q),
             WrapAxis(P[self].y + TDiv(V[self].y * dt, MsPerSecond), bounds * Q),
             WrapAxis(P[self].z + TDiv(V[self].z * dt, MsPerSecond), bounds * Q))

(***************************************************************************)
(* The inputs of a run.                                                    *)
(***************************************************************************)
\* the options the constructor merges over its defaults (birds = 0 is birds: null;
\* freedom in thousandths)
DefaultOptions ==
    [resolution |-> 32, birds |-> 0, separation |-> 20, alignment |-> 30,
     cohesion |-> 20, freedom |-> 300, bounds |-> 500]

OptionChoices ==
    { [DefaultOptions EXCEPT !.resolution = 2],
      [DefaultOptions EXCEPT !.birds = 3, !.bounds = 50] }

\* the default zones (zoneRadius 70), and zone distances that sum to 0
ZoneOptionChoices ==
    { [DefaultOptions EXCEPT !.resolution = 2],
      [DefaultOptions EXCEPT !.resolution = 2, !.separation = 0, !.alignment = 0,
                             !.cohesion = 0] }

\* width and height of the container's bounding rectangle, and of the window
ContainerSizes == { <<800, 600>>, <<3840, 2160>> }

\* the container when the page is loaded
InitialContainer == <<800, 600>>

WindowSize == <<1200, 900>>

\* clientX and clientY of a mouse event: a place in the window
ClientPlaces == { <<600, 300>> }

\* pageX and pageY of a touch: a place on the page, which may be scrolled
PagePlaces == { <<500, 200>>, <<600, 3500>> }

\* performance.now() advances by one of these between two readings
Elapsed == { 500, 2500 }

(***************************************************************************)
(* Math.random(): the i-th draw (i = 0, 1, ...) of the generator seeded    *)
(* with seed, in thousandths, 0 <= draw < 1000.                            *)
(***************************************************************************)
RandomStreams ==
    << \* positions (0,0,0) (10,0,0) (45,0,0) (0,65,0), then the velocities
       << 0, 0, 0,  100, 0, 0,  450, 0, 0,  0, 650, 0,
          600, 500, 500,  500, 500, 500,  500, 700, 500,  400, 500, 600 >>,
       \* positions near the far corner of [0,100)^3
       << 999, 999, 999,  600, 600, 100,  990, 500, 500,  610, 600, 100,
          999, 999, 999,  0, 0, 0,  999, 500, 0,  500, 500, 500 >> >>

Seeds == DOMAIN RandomStreams

\* streams that place pairs of birds in chosen zones of one another, all of them more
\* than 50 units from the z axis (the predator of the first tick)
PairStreams ==
    << \* positions A (60,60,10), A + (10,0,0), A + (10,36,2), A + (-10,0,60)
       << 600, 600, 100,  700, 600, 100,  700, 960, 120,  500, 600, 700,
          700, 500, 500,  500, 700, 500,  500, 500, 700,  300, 500, 500 >>,
       \* two pairs in separation, 5 and 10 units apart, far from one another
       << 600, 600, 100,  650, 600, 100,  900, 900, 900,  900, 800, 900,
          700, 500, 500,  500, 700, 500,  500, 500, 700,  300, 500, 500 >> >>

PairSeeds == { Len(RandomStreams) + k : k \in DOMAIN PairStreams }

MathRandom(seed, i) ==
    LET stream == (RandomStreams \o PairStreams)[seed]
    IN stream[(i % Len(stream)) + 1]

\* fillPositionTexture: x, y, z = Math.random() * 100 for every texel of the texture
fillPositionTexture(seed, n) ==
    [c \in 0 .. n - 1 |->
        Vec(TDiv(MathRandom(seed, 3 * c) * InitialPositionRange * Q, 1000),
            TDiv(MathRandom(seed, 3 * c + 1) * InitialPositionRange * Q, 1000),
            TDiv(MathRandom(seed, 3 * c + 2) * InitialPositionRange * Q, 1000))]

\* fillVelocityTexture: x, y, z = (Math.random() - 0.5) * 10, drawn after the positions
fillVelocityTexture(seed, n) ==
    [c \in 0 .. n - 1 |->
        Vec(TDiv((MathRandom(seed, 3 * n + 3 * c) - 500) * InitialVelocityRange * Q, 1000),
            TDiv((MathRandom(seed, 3 * n + 3 * c + 1) - 500) * InitialVelocityRange * Q, 1000),
            TDiv((MathRandom(seed, 3 * n + 3 * c + 2) - 500) * InitialVelocityRange * Q, 1000))]

(***************************************************************************)
(* runSimulation, lines 88-98: the grid resolution and the bird count.     *)
(***************************************************************************)
\* resolution = Math.ceil(Math.sqrt(birdsCount)) when birds is a positive integer
GridResolution(o) == IF o.birds > 0 THEN CeilSqrt(o.birds) ELSE o.resolution

BirdsCount(o) == IF o.birds > 0 THEN o.birds ELSE o.resolution * o.resolution

\* rect.width || window.innerWidth
Extent(rect, win) == IF rect # 0 THEN rect ELSE win

(***************************************************************************)
(* The state.                                                              *)
(***************************************************************************)
VARIABLES
    options,             \* this.options
    givenOptions,        \* this.options as the constructor left them
    awaiting,            \* calls of start() suspended at 'await this.loadAllShaders()'
    stopped,             \* stop() has run and start() has not been called since
    birdMesh,            \* this.birdMesh: "none", "added" to the scene, or "disposed"
    container,           \* the container's bounding rectangle <<width, height>>
    seed,                \* the seed of Math.random() in this run
    gpu,                 \* what normalize(0) gives on the GPU of this run: "unknown"
                         \* until a kernel has met it, then one of NormalizeZero
    pc,                  \* "constructed", "failed", "idle", or the step render() is at
    startResult,         \* the promise start() returned: "none", "resolved", "rejected"
    birdsCount,          \* this.birdsCount
    halfX, halfY,        \* this.halfX, this.halfY
    lastTime,            \* this.lastTime (ms)
    mouseX, mouseY,      \* this.mouseX, this.mouseY
    rafId,               \* this._rafId (0 is null)
    rafPending,          \* the animation-frame callbacks the browser holds
    rafCount,            \* the animation frames requested so far
    currentTextureIndex, \* gpuAllocation.currentTextureIndex
    positionTargets,     \* positionVariable.renderTargets: index -> texel -> vector
    velocityTargets,     \* velocityVariable.renderTargets
    written,             \* the texels the running pass has drawn
    uniformVelocity,     \* velocityVariable.material.uniforms (and defines.bounds)
    uniformPosition,     \* positionVariable.material.uniforms
    uniformBird,         \* this.uniformBird; a texture is named by its target index
    \* history variables, read by the properties only
    tick,                \* render() calls that reached compute()
    generation,          \* the tick whose compute() completed last (0: the initial fill)
    thrown,              \* the ticks whose render() ended with an exception
    nEvents,             \* events handled
    stored,              \* << >>, or << x, y, n >>: n offsets were stored since the last
                         \* render(), the last of them (x, y)
    sample,              \* what the running or last render() did with the pointer
    prevSample,          \* sample of the render() before
    positionGen,         \* index -> texel -> the generation the texel was drawn for
                         \* (0: initial fill)
    velocityGen,
    velocityPass,        \* texel -> the velocity kernel run on the textures bound when
                         \* render() began, normalize(0) counted as NaN
    kernelReads,         \* what the fragments of the running or last compute() read
    frame                \* what the last renderer.render() drew

vars == << options, givenOptions, awaiting, stopped, birdMesh,
          container, seed, gpu, pc, startResult, birdsCount, halfX, halfY, lastTime,
           mouseX, mouseY, rafId, rafPending, rafCount, currentTextureIndex,
           positionTargets, velocityTargets, written, uniformVelocity,
           uniformPosition, uniformBird, tick, generation, thrown, nEvents, stored, sample,
           prevSample, positionGen, velocityGen, velocityPass, kernelReads, frame >>

NoSample == [active |-> FALSE, stored |-> << >>, halfX |-> 0, halfY |-> 0,
             predatorBefore |-> ZeroVec, elapsed |-> 0]

NoFrame == [tick |-> 0, position |-> -1, velocity |-> -1,
            positionGens |-> {}, velocityGens |-> {}]

Texels == DOMAIN positionTargets[0]

(***************************************************************************)
(* The state after new Starlings(selector, options).                       *)
(***************************************************************************)
InitWith(choices, seeds) ==
    /\ options \in choices
    /\ givenOptions = options
    /\ awaiting = 0
    /\ stopped = FALSE
    /\ birdMesh = "none"
    /\ container = InitialContainer
    /\ seed \in seeds
    /\ gpu = "unknown"
    /\ pc = "constructed"
    /\ startResult = "none"
    /\ birdsCount = 0
    /\ halfX = 0 /\ halfY = 0
    /\ lastTime = 0
    /\ mouseX = 0 /\ mouseY = 0
    /\ rafId = 0
    /\ rafPending = {}
    /\ rafCount = 0
    /\ currentTextureIndex = 0
    /\ positionTargets = [i \in {0, 1} |-> << >>]
    /\ velocityTargets = [i \in {0, 1} |-> << >>]
    /\ written = {}
    /\ uniformVelocity = [clock |-> 0, del_change |-> 0, separation_distance |-> 0,
                          alignment_distance |-> 0, cohesion_distance |-> 0,
                          freedom_distance |-> 0, predator |-> ZeroVec, bounds |-> 0]
    /\ uniformPosition = [clock |-> 0, del_change |-> 0]
    /\ uniformBird = [clock |-> 0, del_change |-> 0,
                      PositionTexture |-> -1, VelocityTexture |-> -1]
    /\ tick = 0
    /\ generation = 0
    /\ thrown = {}
    /\ nEvents = 0
    /\ stored = << >>
    /\ sample = NoSample
    /\ prevSample = NoSample
    /\ positionGen = [i \in {0, 1} |-> << >>]
    /\ velocityGen = [i \in {0, 1} |-> << >>]
    /\ velocityPass = << >>
    /\ kernelReads = {}
    /\ frame = NoFrame

(***************************************************************************)
(* render(), lines 271-297: the time step, the uniforms and the pointer.   *)
(* The arguments are the fields as render() finds them.                    *)
(***************************************************************************)
\* a faulty variant of Delta: line 274 left out
DeltaUnclamped(now, lt) == now - lt

\* delta = (now - this.lastTime) / 1000; if (delta > 1) delta = 1   (in ms)
Delta(now, lt) == IF now - lt > MaxDeltaMs THEN MaxDeltaMs ELSE now - lt

\* Math.abs(mouseX) < halfX * 10 && Math.abs(mouseY) < halfY * 10
PointerActive(mx, my, hx, hy) ==
    Abs(mx) < hx * ActiveFactor /\ Abs(my) < hy * ActiveFactor

\* predator.value.set(0.5 * mouseX / halfX, -0.5 * mouseY / halfY, 0), in thousandths
PredatorTarget(mx, my, hx, hy) == Vec(TDiv(500 * mx, hx), TDiv(-500 * my, hy), 0)

\* the value of the predator uniform after lines 286-297
PredatorAfter(old, mx, my, hx, hy) ==
    IF PointerActive(mx, my, hx, hy) THEN PredatorTarget(mx, my, hx, hy) ELSE old

\* the value of this.mouseX (or this.mouseY) after lines 286-297
PointerAfter(m, mx, my, hx, hy) ==
    IF PointerActive(mx, my, hx, hy) THEN ResetPointer ELSE m

\* the index compute() binds a dependency of the running variable to (see compute()
\* below)
\* a faulty variant of BoundIndex: the velocity pass reads the targets it draws into
BoundIndexDrawnTarget(variable, dependency, cur) ==
    IF variable = "VelocityTexture" THEN 1 - cur ELSE cur

BoundIndex(variable, dependency, cur) == cur

\* a faulty variant of DrawIndex: the pass draws into the targets it reads
DrawIndexInPlace(cur) == cur

\* the index of the render targets a pass draws into
DrawIndex(cur) == 1 - cur

\* the velocity kernel run for every texel on the textures P and V
VelocityPass(P, V, u) ==
    [c \in DOMAIN P |-> boidVelocityFrag(c, P, V, u, "nan")]

\* P and V are the textures compute() will bind for the velocity pass
render(now, lt, mx, my, hx, hy, uV, uP, uB, P, V) ==
    /\ lastTime' = now
    /\ uniformVelocity' = [uV EXCEPT !.clock = now,
                                     !.del_change = Delta(now, lt),
                                     !.predator = PredatorAfter(@, mx, my, hx, hy)]
    /\ velocityPass' =
           VelocityPass(P, V, [uV EXCEPT !.clock = now,
                                         !.del_change = Delta(now, lt),
                                         !.predator = PredatorAfter(@, mx, my, hx, hy)])
    /\ uniformBird' = [uB EXCEPT !.clock = now, !.del_change = Delta(now, lt)]
    /\ uniformPosition' = [uP EXCEPT !.clock = now, !.del_change = Delta(now, lt)]
    /\ mouseX' = PointerAfter(mx, mx, my, hx, hy)
    /\ mouseY' = PointerAfter(my, mx, my, hx, hy)
    /\ pc' = "velocity"
    /\ written' = {}
    /\ tick' = tick + 1
    /\ sample' = [active |-> PointerActive(mx, my, hx, hy), stored |-> stored,
                  halfX |-> hx, halfY |-> hy, predatorBefore |-> uV.predator,
                  elapsed |-> now - lt]
    /\ prevSample' = sample
    /\ stored' = << >>
    /\ kernelReads' = {}

(***************************************************************************)
(* BirdGeometry.constructor: 9 vertices (3 triangles) per bird.  The       *)
(* 'reference' attribute of vertex i is (x, y) with idx = floor(i / 3),    *)
(* x = (idx % res) / res and y = floor(idx / res) / res; the model keeps   *)
(* the numerators, so a component is in [0,1) iff it is in 0 .. res - 1.   *)
(***************************************************************************)
GeometryResolution(o) == IF o.resolution # 0 THEN o.resolution ELSE 32

ReferenceOf(i, res) ==
    LET idx == i \div 3
    IN [x |-> idx % res, y |-> idx \div res]

BirdGeometry(birds, o) ==
    LET triangles == birds * 3
    IN [i \in 0 .. triangles * 3 - 1 |-> ReferenceOf(i, GeometryResolution(o))]

\* The vertices of bird f: vertex_append writes 9 vertices per bird, in order.
BirdVertices(f) == 9 * f .. 9 * f + 8

\* initBirds, line 225: new BirdGeometry(this.birdsCount, this.options)
initBirds(birds, o) == BirdGeometry(birds, o)

\* The 'reference' attribute of the bird mesh, per vertex and in cells: it is
\* written once by initBirds from this.birdsCount and this.options and never again.
reference == IF birdMesh = "none" THEN << >> ELSE initBirds(birdsCount, options)

\* a faulty variant of OptionsAfterStart: line 94 left out
OptionsKept(o) == o

\* this.options after lines 88-98: resolution = Math.ceil(Math.sqrt(birdsCount))
OptionsAfterStart(o) == [o EXCEPT !.resolution = GridResolution(o)]

\* a faulty variant of StartResult: no try/catch around runSimulation()
StartResultUncaught(error) == IF error THEN "rejected" ELSE "resolved"

\* the promise of start(): the catch of lines 77-79 consumes every error
StartResult(error) == "resolved"

\* Whether gpuCompute.init() fails depends on the device, which is the same in
\* every run of runSimulation() on one page.
InitFailures(p) ==
    IF p = "constructed" THEN BOOLEAN ELSE IF p = "failed" THEN {TRUE} ELSE {FALSE}

\* The stream of Math.random() values that fills the textures: the one drawn at
\* construction for the first run, any stream for a later run.
FillSeeds(p, sd) == IF p = "constructed" THEN {sd} ELSE Seeds

(***************************************************************************)
(* start(), lines 73-75, up to 'await this.loadAllShaders()': the call     *)
(* returns to its caller and the rest of start() (the action Start) runs   *)
(* as a microtask, after the caller's synchronous code and before any      *)
(* event or animation frame.  StartCall is the first call on an instance,  *)
(* StartAgain any later call.                                              *)
(***************************************************************************)
StartCall ==
    /\ pc = "constructed"
    /\ awaiting = 0
    /\ awaiting' = awaiting + 1
    /\ stopped' = FALSE
    /\ UNCHANGED << options, container, givenOptions, seed, gpu, pc, startResult,
                    birdsCount, halfX, halfY, lastTime, mouseX, mouseY, rafId, rafPending, rafCount,
                    currentTextureIndex, positionTargets, velocityTargets, written,
                    uniformVelocity, uniformPosition, uniformBird, tick, generation,
                    thrown, stored, sample, prevSample, positionGen, velocityGen,
                    velocityPass, kernelReads, frame,
                    birdMesh, nEvents >>

StartAgain ==
    /\ \/ pc \in {"idle", "failed"}
       \/ pc = "constructed" /\ awaiting > 0
    /\ nEvents < MaxEvents
    /\ nEvents' = nEvents + 1
    /\ awaiting' = awaiting + 1
    /\ stopped' = FALSE
    /\ UNCHANGED << options, container, givenOptions, seed, gpu, pc, startResult,
                    birdsCount, halfX, halfY, lastTime, mouseX, mouseY, rafId, rafPending, rafCount,
                    currentTextureIndex, positionTargets, velocityTargets, written,
                    uniformVelocity, uniformPosition, uniformBird, tick, generation,
                    thrown, stored, sample, prevSample, positionGen, velocityGen,
                    velocityPass, kernelReads, frame,
                    birdMesh >>

(***************************************************************************)
(* stop(), lines 394-418.  The removeEventListener calls of lines 400-406  *)
(* pass a new function made by bind(), which is none of the functions that *)
(* initScene registered, so every listener stays registered; the 'change'  *)
(* listener of the controls is not mentioned at all.  renderer.dispose()   *)
(* frees resources that the renderer makes again on its next use.          *)
(***************************************************************************)
Stop ==
    /\ \/ pc \in {"idle", "failed"}
       \/ pc = "constructed" /\ awaiting > 0
    /\ nEvents < MaxEvents
    /\ nEvents' = nEvents + 1
    /\ stopped' = TRUE
    \* if (this._rafId !== null) { cancelAnimationFrame(this._rafId); this._rafId = null; }
    /\ rafPending' = rafPending \ {rafId}
    /\ rafId' = 0
    \* if (this.birdMesh) { this.scene.remove(...); geometry.dispose(); material.dispose(); }
    /\ birdMesh' = IF birdMesh = "none" THEN "none" ELSE "disposed"
    /\ UNCHANGED << options, container, givenOptions, seed, gpu, pc, startResult,
                    birdsCount, halfX, halfY, lastTime, mouseX, mouseY, rafCount,
                    currentTextureIndex, positionTargets, velocityTargets, written,
                    uniformVelocity, uniformPosition, uniformBird, tick, generation,
                    thrown, stored, sample, prevSample, positionGen, velocityGen,
                    velocityPass, kernelReads, frame,
                    awaiting >>

(***************************************************************************)
(* The rest of start() after the await, lines 75-80: runSimulation(),      *)
(* lines 86-123, inside a try whose catch logs the error and returns.      *)
(* initComputeRenderer fills one position and one velocity texture; init() *)
(* copies each into both render targets of its variable, or returns an     *)
(* error, and then initComputeRenderer throws (lines 212-216): initScene   *)
(* has registered the listeners, initBirds() and animate() are never       *)
(* reached.  On success the action ends where the first render() hands the *)
(* work to the GPU.                                                        *)
(***************************************************************************)
Start ==
    /\ awaiting > 0
    /\ pc \in {"constructed", "idle", "failed"}
    /\ tick < MaxTicks
    /\ awaiting' = awaiting - 1
    /\ \E error \in InitFailures(pc), sd \in FillSeeds(pc, seed) :
        LET res == GridResolution(options)
            n == res * res
            hx == Extent(container[1], WindowSize[1]) \div 2
            hy == Extent(container[2], WindowSize[2]) \div 2
            uV == [clock |-> 1, del_change |-> 0,
                   separation_distance |-> options.separation,
                   alignment_distance |-> options.alignment,
                   cohesion_distance |-> options.cohesion,
                   freedom_distance |-> options.freedom,
                   predator |-> ZeroVec,
                   bounds |-> options.bounds]
            uP == [clock |-> 0, del_change |-> 0]
            uB == [clock |-> 1, del_change |-> 0,
                   PositionTexture |-> -1, VelocityTexture |-> -1]
        IN /\ options' = OptionsAfterStart(options)
           /\ seed' = sd
           /\ birdsCount' = BirdsCount(options)
           /\ halfX' = hx
           /\ halfY' = hy
           /\ startResult' = StartResult(error)
           /\ IF error
              THEN /\ pc' = "failed"
                   /\ uniformVelocity' = uV
                   /\ uniformPosition' = uP
                   /\ mouseX' = 0
                   /\ mouseY' = 0
                   /\ UNCHANGED << birdMesh, lastTime, rafId, rafPending, rafCount,
                                   currentTextureIndex, positionTargets, velocityTargets,
                                   written, uniformBird, tick, stored, sample, prevSample,
                                   positionGen, velocityGen, velocityPass, kernelReads >>
              ELSE /\ positionTargets' = [i \in {0, 1} |-> fillPositionTexture(sd, n)]
                   /\ velocityTargets' = [i \in {0, 1} |-> fillVelocityTexture(sd, n)]
                   /\ positionGen' = [i \in {0, 1} |-> [c \in 0 .. n - 1 |-> generation]]
                   /\ velocityGen' = [i \in {0, 1} |-> [c \in 0 .. n - 1 |-> generation]]
                   /\ currentTextureIndex' = 0
                   /\ birdMesh' = "added"
                   \* animate(): this._rafId = requestAnimationFrame(...); this.render()
                   /\ rafCount' = rafCount + 1
                   /\ rafId' = rafCount + 1
                   /\ rafPending' = rafPending \cup {rafCount + 1}
                   /\ render(lastTime + StartupMs, lastTime, 0, 0, hx, hy, uV, uP, uB,
                             fillPositionTexture(sd, n), fillVelocityTexture(sd, n))
    /\ UNCHANGED << container, givenOptions, stopped, gpu, generation, thrown, nEvents,
                    frame >>

(***************************************************************************)
(* animate(), lines 249-252, run by the browser for a pending animation    *)
(* frame: requests the next frame and starts render().                     *)
(***************************************************************************)
Animate ==
    /\ pc = "idle"
    /\ awaiting = 0
    /\ tick < MaxTicks
    /\ \E id \in rafPending, e \in Elapsed :
        /\ rafCount' = rafCount + 1
        /\ rafId' = rafCount + 1
        /\ rafPending' = (rafPending \ {id}) \cup {rafCount + 1}
        /\ render(lastTime + e, lastTime, mouseX, mouseY, halfX, halfY,
                  uniformVelocity, uniformPosition, uniformBird,
                  positionTargets[BoundIndex("VelocityTexture", "PositionTexture",
                                             currentTextureIndex)],
                  velocityTargets[BoundIndex("VelocityTexture", "VelocityTexture",
                                             currentTextureIndex)])
    /\ UNCHANGED << options, container, givenOptions, awaiting, stopped, birdMesh, seed, gpu, startResult, birdsCount, halfX, halfY,
                    currentTextureIndex, positionTargets, velocityTargets,
                    generation, thrown, nEvents, positionGen, velocityGen, frame >>

(***************************************************************************)
(* The 'change' listener of the orbit controls, line 149: render().  When  *)
(* initComputeRenderer has thrown, this.uniformBird was never created:     *)
(* render() runs lines 272-279 and throws at line 280.                     *)
(***************************************************************************)
ControlsChange ==
    /\ awaiting = 0
    /\ nEvents < MaxEvents
    /\ nEvents' = nEvents + 1
    /\ \/ /\ pc = "idle"
          /\ tick < MaxTicks
          /\ \E e \in Elapsed :
              render(lastTime + e, lastTime, mouseX, mouseY, halfX, halfY,
                     uniformVelocity, uniformPosition, uniformBird,
                     positionTargets[BoundIndex("VelocityTexture", "PositionTexture",
                                                currentTextureIndex)],
                     velocityTargets[BoundIndex("VelocityTexture", "VelocityTexture",
                                                currentTextureIndex)])
          /\ UNCHANGED << options, container, givenOptions, awaiting, stopped, birdMesh, seed, gpu, startResult, birdsCount,
                          halfX, halfY, rafId, rafPending, rafCount,
                          currentTextureIndex, positionTargets, velocityTargets,
                          generation, thrown, positionGen, velocityGen, frame >>
       \/ /\ pc = "failed"
          /\ \E e \in Elapsed :
              /\ lastTime' = lastTime + e
              /\ uniformVelocity' = [uniformVelocity EXCEPT
                                        !.clock = lastTime + e,
                                        !.del_change = Delta(lastTime + e, lastTime)]
          /\ UNCHANGED << options, container, givenOptions, awaiting, stopped, birdMesh, seed, gpu, pc, startResult, birdsCount,
                          halfX, halfY, mouseX, mouseY, rafId, rafPending, rafCount,
                          currentTextureIndex, positionTargets, velocityTargets,
                          written, uniformPosition, uniformBird, tick, generation,
                          thrown, stored, sample, prevSample, positionGen, velocityGen,
                          velocityPass, kernelReads, frame >>

(***************************************************************************)
(* gpuAllocation.compute(), line 300.  The variables run in the order      *)
(* they were added (lines 187-188): velocity, then position.  Each         *)
(* dependency of the running variable (lines 190-191) is bound to the      *)
(* render target of index BoundIndex; the fragments draw into the other    *)
(* target, one texel each, in any order.                                   *)
(***************************************************************************)
GensOf(gen) == { gen[c] : c \in DOMAIN gen }

FragmentVelocity(c) ==
    /\ pc = "velocity"
    /\ c \in Texels \ written
    /\ LET cur == currentTextureIndex
           next == DrawIndex(cur)
           P == positionTargets[BoundIndex("VelocityTexture", "PositionTexture", cur)]
           V == velocityTargets[BoundIndex("VelocityTexture", "VelocityTexture", cur)]
           pg == positionGen[BoundIndex("VelocityTexture", "PositionTexture", cur)]
           vg == velocityGen[BoundIndex("VelocityTexture", "VelocityTexture", cur)]
           \* the kernel's run on P and V: the one render() began with, unless a
           \* fragment of this tick has drawn into a texture this pass reads
           run == IF tick \in GensOf(pg) \cup GensOf(vg)
                  THEN boidVelocityFrag(c, P, V, uniformVelocity, "nan")
                  ELSE velocityPass[c]
       IN /\ \E r \in KernelOutcomesOf(run, c, P, V, uniformVelocity, gpu) :
                 /\ velocityTargets' = [velocityTargets EXCEPT ![next][c] = r.value]
                 /\ gpu' = r.gpu
          /\ velocityGen' = [velocityGen EXCEPT ![next][c] = tick]
          /\ kernelReads' = kernelReads \cup
                 {[kernel |-> "velocity", position |-> GensOf(pg), velocity |-> GensOf(vg)]}
    /\ IF written \cup {c} = Texels
       THEN pc' = "position" /\ written' = {}
       ELSE pc' = pc /\ written' = written \cup {c}
    /\ UNCHANGED << options, container, givenOptions, awaiting, stopped, birdMesh, seed, startResult, birdsCount, halfX, halfY,
                    lastTime, mouseX, mouseY, rafId, rafPending, rafCount,
                    currentTextureIndex, positionTargets, uniformVelocity,
                    uniformPosition, uniformBird, tick, generation, thrown, nEvents,
                    stored, sample, prevSample, positionGen, velocityPass, frame >>

\* the last fragment of the position pass ends compute(): the index flips
FragmentPosition(c) ==
    /\ pc = "position"
    /\ c \in Texels \ written
    /\ LET cur == currentTextureIndex
           next == DrawIndex(cur)
           ip == BoundIndex("PositionTexture", "PositionTexture", cur)
           iv == BoundIndex("PositionTexture", "VelocityTexture", cur)
       IN /\ positionTargets' = [positionTargets EXCEPT
                 ![next][c] = boidPositionFrag(c, positionTargets[ip], velocityTargets[iv],
                                               uniformPosition.del_change, options.bounds)]
          /\ positionGen' = [positionGen EXCEPT ![next][c] = tick]
          /\ kernelReads' = kernelReads \cup
                 {[kernel |-> "position", position |-> {positionGen[ip][c]},
                   velocity |-> {velocityGen[iv][c]}]}
          /\ IF written \cup {c} = Texels
             THEN /\ pc' = "present"
                  /\ written' = {}
                  /\ currentTextureIndex' = 1 - cur
                  /\ generation' = tick
             ELSE /\ pc' = pc
                  /\ written' = written \cup {c}
                  /\ currentTextureIndex' = cur
                  /\ generation' = generation
    /\ UNCHANGED << options, container, givenOptions, awaiting, stopped, birdMesh, seed, gpu, startResult, birdsCount, halfX, halfY,
                    lastTime, mouseX, mouseY, rafId, rafPending, rafCount,
                    velocityTargets, uniformVelocity, uniformPosition, uniformBird,
                    tick, thrown, nEvents, stored, sample, prevSample, velocityGen,
                    velocityPass, frame >>

(***************************************************************************)
(* An exception inside compute(), line 300, before the draw call of the    *)
(* velocity pass or between the two draw calls: it leaves compute(),       *)
(* render() (lines 303-307 are skipped) and animate(), which has already   *)
(* requested the next frame (line 250).  The index flips only in the last  *)
(* statement of compute().                                                 *)
(***************************************************************************)
\* a faulty variant of IndexAfterThrow: the index flips although compute() was left
IndexAfterThrowFlipped(cur) == 1 - cur

IndexAfterThrow(cur) == cur

Throw ==
    /\ pc \in {"velocity", "position"}
    /\ written = {}
    /\ nEvents < MaxEvents
    /\ nEvents' = nEvents + 1
    /\ thrown' = thrown \cup {tick}
    /\ currentTextureIndex' = IndexAfterThrow(currentTextureIndex)
    /\ pc' = "idle"
    /\ UNCHANGED << options, container, givenOptions, awaiting, stopped, birdMesh, seed, gpu, startResult, birdsCount, halfX, halfY,
                    lastTime, mouseX, mouseY, rafId, rafPending, rafCount,
                    positionTargets, velocityTargets, written, uniformVelocity,
                    uniformPosition, uniformBird, tick, generation, stored,
                    sample, prevSample, positionGen, velocityGen, velocityPass, kernelReads, frame >>

(***************************************************************************)
(* render(), lines 303-307: the bird material gets the current render      *)
(* targets and the scene is drawn.                                         *)
(***************************************************************************)
\* a faulty variant of getCurrentRenderTarget: the target compute() has just read from
getPreviousRenderTarget(cur) == 1 - cur

getCurrentRenderTarget(cur) == cur

Present ==
    /\ pc = "present"
    /\ LET hp == getCurrentRenderTarget(currentTextureIndex)
           hv == getCurrentRenderTarget(currentTextureIndex)
       IN /\ uniformBird' = [uniformBird EXCEPT !.PositionTexture = hp,
                                                !.VelocityTexture = hv]
          /\ frame' = [tick |-> tick, position |-> hp, velocity |-> hv,
                       positionGens |-> GensOf(positionGen[hp]),
                       velocityGens |-> GensOf(velocityGen[hv])]
    /\ pc' = "idle"
    /\ UNCHANGED << options, container, givenOptions, awaiting, stopped, birdMesh, seed, gpu, startResult, birdsCount, halfX, halfY,
                    lastTime, mouseX, mouseY, rafId, rafPending, rafCount,
                    currentTextureIndex, positionTargets, velocityTargets, written,
                    uniformVelocity, uniformPosition, tick, generation, thrown, nEvents,
                    stored, sample, prevSample, positionGen, velocityGen, velocityPass, kernelReads >>

(***************************************************************************)
(* The pointer, touch and resize listeners, lines 314-355.                 *)
(***************************************************************************)
\* this.mouseX = clientX - this.halfX; this.mouseY = clientY - this.halfY
StorePointer(x, y) ==
    /\ mouseX' = x - halfX
    /\ mouseY' = y - halfY
    /\ stored' = << x - halfX, y - halfY, IF stored = << >> THEN 1 ELSE stored[3] + 1 >>

onDocumentMouseMove ==
    /\ pc \in {"idle", "failed"}
    /\ awaiting = 0
    /\ nEvents < MaxEvents
    /\ \E p \in ClientPlaces : StorePointer(p[1], p[2])
    /\ nEvents' = nEvents + 1
    /\ UNCHANGED << options, container, givenOptions, awaiting, stopped, birdMesh, seed, gpu, pc, startResult, birdsCount,
                    halfX, halfY, lastTime, rafId, rafPending, rafCount,
                    currentTextureIndex, positionTargets, velocityTargets, written,
                    uniformVelocity, uniformPosition, uniformBird, tick, generation,
                    thrown, sample, prevSample, positionGen, velocityGen, velocityPass, kernelReads,
                    frame >>

\* if (event.touches.length === 1) { ... }
TouchHandler ==
    /\ pc \in {"idle", "failed"}
    /\ awaiting = 0
    /\ nEvents < MaxEvents
    /\ \E touches \in {1, 2}, p \in PagePlaces :
        IF touches = 1
        THEN StorePointer(p[1], p[2])
        ELSE UNCHANGED << mouseX, mouseY, stored >>
    /\ nEvents' = nEvents + 1
    /\ UNCHANGED << options, container, givenOptions, awaiting, stopped, birdMesh, seed, gpu, pc, startResult, birdsCount,
                    halfX, halfY, lastTime, rafId, rafPending, rafCount,
                    currentTextureIndex, positionTargets, velocityTargets, written,
                    uniformVelocity, uniformPosition, uniformBird, tick, generation,
                    thrown, sample, prevSample, positionGen, velocityGen, velocityPass, kernelReads,
                    frame >>

onDocumentTouchStart == TouchHandler

onDocumentTouchMove == TouchHandler

onWindowResize ==
    /\ pc \in {"idle", "failed"}
    /\ awaiting = 0
    /\ nEvents < MaxEvents
    /\ \E size \in ContainerSizes :
        /\ container' = size
        /\ halfX' = Extent(size[1], WindowSize[1]) \div 2
        /\ halfY' = Extent(size[2], WindowSize[2]) \div 2
    /\ nEvents' = nEvents + 1
    /\ UNCHANGED << options, givenOptions, awaiting, stopped, birdMesh, seed, gpu, pc, startResult, birdsCount, lastTime,
                    mouseX, mouseY, rafId, rafPending, rafCount, currentTextureIndex,
                    positionTargets, velocityTargets, written, uniformVelocity,
                    uniformPosition, uniformBird, tick, generation, thrown, stored,
                    sample, prevSample, positionGen, velocityGen, velocityPass, kernelReads, frame >>

Next ==
    \/ StartCall
    \/ Start
    \/ Animate
    \/ ControlsChange
    \/ \E c \in Texels : FragmentVelocity(c)
    \/ \E c \in Texels : FragmentPosition(c)
    \/ Throw
    \/ Present
    \/ onDocumentMouseMove
    \/ onDocumentTouchStart
    \/ onDocumentTouchMove
    \/ onWindowResize

Init == InitWith(OptionChoices, Seeds)

Spec == Init /\ [][Next]_vars

\* The same program when its page also calls stop(), and start() more than once.
LifecycleOptionChoices == { [DefaultOptions EXCEPT !.resolution = 2] }

LifecycleInit == InitWith(LifecycleOptionChoices, Seeds)

LifecycleNext == Next \/ StartAgain \/ Stop

LifecycleSpec == LifecycleInit /\ [][LifecycleNext]_vars

(***************************************************************************)
(* The velocity kernel on chosen flocks: start() and the first render(),   *)
(* with birds placed in chosen zones of one another.                       *)
(***************************************************************************)
KernelInit == InitWith(ZoneOptionChoices, PairSeeds)

KernelNext ==
    \/ StartCall
    \/ Start
    \/ \E c \in Texels : FragmentVelocity(c)
    \/ \E c \in Texels : FragmentPosition(c)
    \/ Present

KernelSpec == KernelInit /\ [][KernelNext]_vars

(***************************************************************************)
(* Properties.  During a tick (pc = "velocity" or "position") the render   *)
(* targets of index currentTextureIndex hold generation t, those of the    *)
(* other index receive generation t+1.                                     *)
(***************************************************************************)
InTick == pc \in {"velocity", "position"}

\* the velocity pass of the running tick is complete, compute() is not
VelocityPassDone == pc = "position"

GenT == currentTextureIndex

GenNext == 1 - currentTextureIndex

\* C1: after the velocity pass every velocity it wrote has magnitude at most 10.0, or
\* at most 15.0 if the agent was within 50 planar units of the predator target in that
\* tick; an agent outside that radius is held to 10.0.
C1_SpeedBound ==
    VelocityPassDone =>
        \A c \in Texels :
            LET v == velocityTargets[GenNext][c]
                limit == IF PredatorNear(positionTargets[GenT][c], uniformVelocity)
                         THEN 15 * Q ELSE 10 * Q
            IN /\ ~v.nan
               /\ MaxAbs(v) <= limit
               /\ LenSq(v) <= limit * limit

\* C2: the velocity pass reads generation t only: every texture a velocity fragment
\* samples was drawn entirely by the previous tick, and the velocities it leaves are
\* the kernel applied to the generation-t textures, whatever the other fragments
\* had already drawn into the other target.
C2_ReadIsolation ==
    /\ InTick =>
          \A r \in kernelReads :
              r.kernel = "velocity" =>
                  r.position = {generation} /\ r.velocity = {generation}
    /\ (VelocityPassDone /\ written = {}) =>
          \A c \in Texels :
              velocityTargets[GenNext][c] \in
                  { r.value : r \in KernelOutcomes(c, positionTargets[GenT],
                                                   velocityTargets[GenT],
                                                   uniformVelocity, gpu) }

\* a fragment has drawn a velocity that differs from the one it replaced in the stale
\* target and from its generation-t velocity, while other fragments have yet to run
C2_Witness ==
    /\ pc = "velocity"
    /\ tick >= 2
    /\ \E c \in written :
          /\ velocityTargets[GenNext][c] # velocityTargets[GenT][c]
          /\ Texels \ written # {}

\* C3: the position pass reads the generation-t position and the
\* generation-(t+1) velocity drawn in the same tick.
C3_ReadsFreshVelocity ==
    InTick =>
        \A r \in kernelReads :
            r.kernel = "position" => r.position = {generation} /\ r.velocity = {tick}

\* C4: every frame drawn shows one complete generation, the one of its tick, in both
\* textures; the bird material's handles are fetched anew in every render(), after
\* compute(), and while compute() runs they name the target that is not drawn into.
C4_WholeGenerationDrawn ==
    /\ frame.tick >= 1 =>
          /\ frame.positionGens = {frame.tick}
          /\ frame.velocityGens = {frame.tick}
    /\ (pc = "idle" /\ generation >= 1) =>
          /\ frame.tick = generation
          /\ uniformBird.PositionTexture = currentTextureIndex
          /\ uniformBird.VelocityTexture = currentTextureIndex
    /\ InTick => /\ uniformBird.PositionTexture \in {-1, GenT}
                 /\ uniformBird.VelocityTexture \in {-1, GenT}

\* the second frame has been drawn
C4_Witness ==
    /\ pc = "idle"
    /\ tick = 2
    /\ frame.tick = 2
    /\ frame.positionGens = {2}

\* C5: in a tick before which no pointer offset was stored since the previous render(),
\* the predator step is skipped for every agent (no push, no raised limit).
C5_NoSampleNoPredator ==
    (InTick /\ sample.stored = << >>) =>
        \A c \in Texels : ~PredatorNear(positionTargets[GenT][c], uniformVelocity)

\* C6: when a tick has consumed the pointer and no pointer offset was stored before
\* the next tick, the next tick consumes nothing.
C6_ConsumeThenClear ==
    (tick >= 2 /\ prevSample.active /\ sample.stored = << >>) => ~sample.active

\* C7: when several pointer offsets were stored between two ticks, the predator
\* target of the next tick is the one derived from the last of them.
C7_LastSampleIsTarget ==
    (InTick /\ sample.stored # << >> /\ sample.stored[3] >= 2) =>
        uniformVelocity.predator =
            Vec(TDiv(500 * sample.stored[1], sample.halfX),
                TDiv(-500 * sample.stored[2], sample.halfY), 0)

\* C8: the state store holds exactly N records, N = birds when birds is a positive
\* integer (with resolution = ceil(sqrt(birds))) and N = resolution^2 otherwise.
C8_ExactlyN ==
    pc # "constructed" =>
        /\ birdsCount = IF options.birds > 0 THEN options.birds
                        ELSE options.resolution * options.resolution
        /\ options.birds > 0 =>
              /\ options.resolution * options.resolution >= options.birds
              /\ (options.resolution - 1) * (options.resolution - 1) < options.birds
        /\ Cardinality(Texels) = birdsCount

\* C9: the time step of a tick is the time since the previous reading of the clock,
\* at most 1000 ms and never negative, and the velocity material, the position
\* material and the bird material hold the same value.
C9_SameClampedDelta ==
    tick >= 1 =>
        /\ sample.elapsed >= 0
        /\ uniformVelocity.del_change =
               IF sample.elapsed > 1000 THEN 1000 ELSE sample.elapsed
        /\ uniformPosition.del_change = uniformVelocity.del_change
        /\ uniformBird.del_change = uniformVelocity.del_change

\* a tick after a stall of more than a second, following a tick of less
C9_Witness ==
    /\ tick >= 2
    /\ sample.elapsed > 1000
    /\ prevSample.elapsed < 1000
    /\ uniformPosition.del_change = 1000

\* C10: in every generation, the initial one included, every coordinate of every
\* position lies within [-bounds, bounds].
C10_WithinBounds ==
    pc # "constructed" =>
        \A c \in Texels :
            LET p == positionTargets[currentTextureIndex][c]
                b == options.bounds * Q
            IN /\ ~p.nan
               /\ -b <= p.x /\ p.x <= b
               /\ -b <= p.y /\ p.y <= b
               /\ -b <= p.z /\ p.z <= b

\* C11: the agent state advances only in an animation-frame callback: a step that
\* begins a tick (runs the kernels, swaps the buffers) is a step of animate(), which
\* takes a frame the browser holds and requests the next one.
C11_TickOnlyInFrame ==
    [][tick' # tick => rafCount' = rafCount + 1]_vars

\* C12: when init() of the compute renderer returns an error, no tick ever runs, no
\* animation frame is requested, and start() does not complete normally.
C12_InitFailureReported ==
    pc = "failed" =>
        /\ tick = 0
        /\ generation = 0
        /\ rafCount = 0
        /\ rafPending = {}
        /\ startResult # "resolved"

\* the render targets of index i hold one whole generation, the current one
WholeGeneration(i) ==
    /\ GensOf(positionGen[i]) = {generation}
    /\ GensOf(velocityGen[i]) = {generation}

\* C13: once a render() has been left by an exception inside compute(), the render
\* targets of the current index still hold one whole generation, that of the last
\* compute() that returned; no tick that threw is ever the current generation or the
\* one of a frame; every frame drawn shows one whole generation; and the handles of
\* the bird material name the current index, where nothing has been drawn since.
C13_AbortKeepsGeneration ==
    thrown # {} =>
        /\ WholeGeneration(currentTextureIndex)
        /\ generation \notin thrown
        /\ frame.tick \notin thrown
        /\ frame.tick >= 1 =>
              /\ Cardinality(frame.positionGens) = 1
              /\ frame.positionGens = frame.velocityGens
              /\ frame.positionGens \cap thrown = {}
        /\ (pc # "present" /\ generation >= 1) =>
              /\ frame.tick = generation
              /\ uniformBird.PositionTexture = currentTextureIndex
              /\ uniformBird.VelocityTexture = currentTextureIndex

\* the second tick threw after its velocity pass: the other index holds the velocities
\* of generation 2 and the positions of generation 0, the frame is that of tick 1
C13_Witness ==
    /\ pc = "idle"
    /\ thrown = {2}
    /\ tick = 2
    /\ generation = 1
    /\ GensOf(velocityGen[1 - currentTextureIndex]) = {2}
    /\ GensOf(positionGen[1 - currentTextureIndex]) = {0}
    /\ frame.tick = 1
    /\ uniformBird.PositionTexture = currentTextureIndex

\* C15: whatever offset the latest pointer or touch event stored, the render() that
\* follows takes it, unfiltered, as the predator target of its tick.
C15_SampleConsumedAsIs ==
    (InTick /\ sample.stored # << >>) =>
        /\ sample.active
        /\ uniformVelocity.predator =
               PredatorTarget(sample.stored[1], sample.stored[2],
                              sample.halfX, sample.halfY)

\* the zone distances and the bounds the velocity kernel sees are the options
KernelSeesOptions ==
    /\ uniformVelocity.separation_distance = options.separation
    /\ uniformVelocity.alignment_distance = options.alignment
    /\ uniformVelocity.cohesion_distance = options.cohesion
    /\ uniformVelocity.freedom_distance = options.freedom
    /\ uniformVelocity.bounds = options.bounds

NextGeneration(P, V, uV, uP, bounds, nz) ==
    [velocity |-> [c \in DOMAIN P |-> boidVelocityFrag(c, P, V, uV, nz)],
     position |-> [c \in DOMAIN P |-> boidPositionFrag(c, P, V, uP.del_change, bounds)]]

\* C16: when compute() has returned, the new current generation is the function
\* NextGeneration of the generation it started from, of the uniforms of the tick and
\* of the GPU, in whatever order the fragments of each pass were run.
C16_TickIsAFunction ==
    pc = "present" =>
        LET cur == currentTextureIndex
            old == 1 - currentTextureIndex
        IN \E nz \in NormalizeZero :
              /\ gpu \in {"unknown", nz}
              /\ LET g == NextGeneration(positionTargets[old], velocityTargets[old],
                                         uniformVelocity, uniformPosition,
                                         options.bounds, nz)
                 IN /\ velocityTargets[cur] = g.velocity
                    /\ positionTargets[cur] = g.position

\* the second compute() has returned and has changed a velocity and a position
C16_Witness ==
    /\ pc = "present"
    /\ tick = 2
    /\ generation = 2
    /\ \E c \in Texels :
          /\ velocityTargets[currentTextureIndex][c] #
                 velocityTargets[1 - currentTextureIndex][c]
          /\ positionTargets[currentTextureIndex][c] #
                 positionTargets[1 - currentTextureIndex][c]
          /\ ~velocityTargets[currentTextureIndex][c].nan

\* C14: with zone distances that sum to 0, a velocity pass divides by no zero, and
\* every velocity it leaves is the clamp of the velocity after the predator and the
\* centre pull, with no term of any neighbour.
C14_ZeroRadiusGuarded ==
    (InTick /\ zoneRadius(uniformVelocity) = 0) =>
        /\ 0 \notin ThresholdDivisors(uniformVelocity)
        /\ (VelocityPassDone /\ written = {}) =>
              \A c \in Texels :
                  \E nz \in NormalizeZero :
                      velocityTargets[GenNext][c] =
                          ClampSpeed(VelocityBeforeLoop(c, positionTargets[GenT],
                                                        velocityTargets[GenT],
                                                        uniformVelocity, nz),
                                     SpeedLimit(positionTargets[GenT][c], uniformVelocity),
                                     nz)

\* the rule the scan applies to a neighbour at squared distance d2, by percent =
\* d2 / Z^2 against sepThresh = s / Z and alignThresh = (s + a) / Z (both sides
\* multiplied by Z^3 > 0)
RuleByPercent(d2, u) ==
    LET Z == zoneRadius(u)
        s == u.separation_distance * Q
        a == u.alignment_distance * Q
    IN IF d2 = 0 \/ d2 > Z * Z THEN "none"
       ELSE IF d2 * Z < s * Z * Z THEN "separation"
       ELSE IF d2 * Z < (s + a) * Z * Z THEN "alignment"
       ELSE "cohesion"

\* the rules under which the birds of the texture P contribute to one another
RulesMet(P, u) ==
    { RuleByPercent(LenSq(VSub(P[j], P[i])), u) : i, j \in DOMAIN P }

\* C18: in the scan of bird i, every bird j contributes the term of exactly the rule
\* that percent selects (separation below sepThresh, alignment from sepThresh up to
\* alignThresh, cohesion from alignThresh on), and nothing when it is at distance 0
\* (i itself included) or beyond Z.
C18_OneRuleByPercent ==
    InTick =>
        \A i, j \in Texels : \A nz \in NormalizeZero :
            LET P == positionTargets[GenT]
                V == velocityTargets[GenT]
                u == uniformVelocity
                dir == VSub(P[j], P[i])
                rule == RuleByPercent(LenSq(dir), u)
            IN NeighbourTerm(P[i], j, P, V, u, nz) =
                   CASE rule = "none" -> ZeroVec
                     [] rule = "separation" -> SeparationTerm(dir, u, nz)
                     [] rule = "alignment" -> AlignmentTerm(dir, V[j], u, nz)
                     [] rule = "cohesion" -> CohesionTerm(dir, u, nz)

\* a velocity pass has run on a flock in which all three rules and the skip apply,
\* one pair being exactly at percent = sepThresh
C18_Witness ==
    /\ VelocityPassDone
    /\ RulesMet(positionTargets[GenT], uniformVelocity) =
           {"none", "separation", "alignment", "cohesion"}
    /\ \E i, j \in Texels :
          LenSq(VSub(positionTargets[GenT][j], positionTargets[GenT][i])) =
              uniformVelocity.separation_distance * Q * zoneRadius(uniformVelocity)

\* C19: a neighbour in the alignment zone exactly at its inner edge (percent =
\* sepThresh, t = 0) gets the alignment weight 0 and contributes nothing, as the
\* separation rule does just inside that edge; and the alignment weight is back at 0
\* at t = 1.
C19_WeightsMeetAtEdges ==
    InTick =>
        \A i, j \in Texels :
            LET P == positionTargets[GenT]
                V == velocityTargets[GenT]
                u == uniformVelocity
                dir == VSub(P[j], P[i])
            IN (/\ ~dir.nan
                /\ Zone(LenSq(dir), u) = "alignment"
                /\ AlignmentPercent(LenSq(dir), u) = 0) =>
                   /\ AlignmentWeight(AlignmentPercent(LenSq(dir), u)) = 0
                   /\ AlignmentWeight(100) = 0
                   /\ \A nz \in NormalizeZero :
                          NeighbourTerm(P[i], j, P, V, u, nz) = ZeroVec

\* a neighbour in separation of a bird gets from it the term SeparationTerm of the
\* offset from the bird to it
InSeparation(i, j) ==
    LET dir == VSub(positionTargets[GenT][j], positionTargets[GenT][i])
    IN ~dir.nan /\ Zone(LenSq(dir), uniformVelocity) = "separation"

C21_PredatorRepels ==
    InTick =>
        \A c \in Texels : \A nz \in NormalizeZero :
            LET P == positionTargets[GenT]
                V == velocityTargets[GenT]
                u == uniformVelocity
                dir == PredatorDir(P[c], u)
                push == PredatorPush(P[c], u, nz)
            IN IF PredatorNear(P[c], u)
               THEN push.nan \/ push.x * dir.x + push.y * dir.y + push.z * dir.z <= 0
               ELSE \/ P[c].nan
                    \/ VelocityBeforeLoop(c, P, V, u, nz) =
                           VSub(V[c], CentralPull(P[c], u, nz))

\* C24: once the bird mesh is built, the 9 vertices of every bird below birdsCount
\* carry one reference coordinate, both its components lie in [0,1) (one cell of
\* the resolution x resolution grid), and two different birds never share a cell.
C24_OneCellPerBird ==
    reference # << >> =>
        LET res == options.resolution
        IN /\ \A f \in 0 .. birdsCount - 1 :
                /\ \A i, j \in BirdVertices(f) : reference[i] = reference[j]
                /\ \A i \in BirdVertices(f) :
                      /\ reference[i].x \in 0 .. res - 1
                      /\ reference[i].y \in 0 .. res - 1
           /\ \A f, g \in 0 .. birdsCount - 1 :
                f # g => reference[9 * f] # reference[9 * g]

\* C22: once stop() has run (and start() has not been called since), no tick is
\* running or about to be drawn and the browser holds no animation frame of the
\* instance, whatever was interleaved: a start() still suspended at its await,
\* pointer and touch events, and change events of the camera controls.
C22_NothingRunsAfterStop ==
    stopped =>
        /\ pc \in {"constructed", "idle", "failed"}
        /\ rafPending = {}

\* C23: the browser never holds more than one animation frame of an instance, the
\* frame it holds is the one this._rafId names, and a step of stop() leaves none
\* pending, also when start() has been called more than once.
C23_OnePendingFrame ==
    /\ [](Cardinality(rafPending) <= 1 /\ rafPending \subseteq {rafId})
    /\ [][(stopped' /\ ~stopped) => rafPending' = {}]_vars

=============================================================================
